---- MODULE Spec2Model ----
(***************************************************************************)
(* A model of pdf-to-llm.py: configuration generation from a Referia row,  *)
(* PDF splitting, text cleaning and wrapping, page numbering, and the      *)
(* per-section conversion loop.  Text is modelled as TLA+ strings; a       *)
(* character is a string of length one.                                    *)
(***************************************************************************)
EXTENDS Integers, Sequences, FiniteSets, TLC

VARIABLES
    text_in,      \* argument of the text function under test
    text_op,      \* which text function has been applied: "init", "wrap", "clean", "clean2"
    text_out,     \* its result
    text_out2,    \* result of clean_text applied to text_out
    roman_n,      \* argument of the last _to_roman call (0: none yet)
    roman_out,    \* its result
    numbering,    \* a PageNumbering object
    ctor_args,    \* the arguments it was constructed with
    last_offset,  \* offset of the last get_page_string call (-1: none yet)
    last_result,  \* its result
    first_result, \* per offset, the result of the first call with it ("": none yet)
    data,         \* the Referia row: field name -> raw value
    gen_status,   \* generate_thesis_config: "none", "returned" or "raised"
    gen_config,   \* the mapping it returned
    gen_error,    \* the exception it raised
    pc,           \* position in main / process_directory
    doc,          \* reader.pages of the thesis PDF: a sequence of pages
    yaml_file,    \* the mapping stored in the configuration YAML file
    pdf_dir,      \* input directory: file name -> [readable, pages]
    section_configs, \* process_directory's section_configs
    pdf_files,    \* process_directory's pdf_files
    idx,          \* index in pdf_files of the next file of the loop
    txt_dir,      \* output directory: file name -> text written
    log,          \* per converted file, the path pdf_to_txt returned ("" for None)
    page_numbering \* the numbering the last pdf_to_txt resolved

text_vars == <<text_in, text_op, text_out, text_out2>>

roman_vars == <<roman_n, roman_out>>

num_vars == <<numbering, ctor_args, last_offset, last_result, first_result>>

gen_vars == <<data, gen_status, gen_config, gen_error>>

pipe_vars ==
    <<pc, doc, yaml_file, pdf_dir, section_configs, pdf_files, idx, txt_dir, log,
      page_numbering>>

vars == <<text_vars, roman_vars, num_vars, gen_vars, pipe_vars>>

-----------------------------------------------------------------------------
(* Characters and character classes of the regular expressions.            *)

Char(s, i) == SubSeq(s, i, i)

Chars(s) == {Char(s, i) : i \in 1..Len(s)}

\* \s of the re module, restricted to the whitespace the model's texts use
SpaceChars == {" ", "\n", "\t"}

\* \w of the re module, restricted to ASCII
WordChars == Chars("abcdefghijklmnopqrstuvwxyzABCDEFGHIJKLMNOPQRSTUVWXYZ0123456789_")

\* [.,!?;:] of the punctuation-spacing expression
PunctChars == Chars(".,!?;:")

\* the complement of [^\w\s.,!?;:()-]
KeptChars == WordChars \cup SpaceChars \cup Chars(".,!?;:()-")

IsSpace(c) == c \in SpaceChars

RECURSIVE Repeat(_, _)
Repeat(s, n) == IF n <= 0 THEN "" ELSE s \o Repeat(s, n - 1)

-----------------------------------------------------------------------------
(* str methods used by the program.                                        *)

\* index of the first non-whitespace character at or after i, Len(s)+1 if none
SkipSpace(s, i) ==
    CHOOSE j \in i..(Len(s) + 1) :
        /\ j = Len(s) + 1 \/ ~IsSpace(Char(s, j))
        /\ \A k \in i..(j - 1) : IsSpace(Char(s, k))

\* index of the first whitespace character at or after i, Len(s)+1 if none
SkipWord(s, i) ==
    CHOOSE j \in i..(Len(s) + 1) :
        /\ j = Len(s) + 1 \/ IsSpace(Char(s, j))
        /\ \A k \in i..(j - 1) : ~IsSpace(Char(s, k))

\* number of trailing whitespace characters of s
TrailingSpaces(s) ==
    CHOOSE n \in 0..Len(s) :
        /\ n = Len(s) \/ ~IsSpace(Char(s, Len(s) - n))
        /\ \A k \in (Len(s) - n + 1)..Len(s) : IsSpace(Char(s, k))

\* str.strip()
Strip(s) == SubSeq(s, SkipSpace(s, 1), Len(s) - TrailingSpaces(s))

\* str.startswith(prefix)
StartsWith(s, prefix) ==
    Len(s) >= Len(prefix) /\ SubSeq(s, 1, Len(prefix)) = prefix

\* str.split() with no argument: the whitespace-delimited words from index i on
RECURSIVE WordsFrom(_, _)
WordsFrom(s, i) ==
    LET b == SkipSpace(s, i) IN
    IF b > Len(s) THEN <<>>
    ELSE LET e == SkipWord(s, b) IN <<SubSeq(s, b, e - 1)>> \o WordsFrom(s, e)

SplitWords(s) == WordsFrom(s, 1)

\* index of the first sep character at or after i, Len(s)+1 if none
FindChar(s, sep, i) ==
    CHOOSE j \in i..(Len(s) + 1) :
        /\ j = Len(s) + 1 \/ Char(s, j) = sep
        /\ \A k \in i..(j - 1) : Char(s, k) # sep

\* str.split(sep) for a one-character separator, from index i on
RECURSIVE SplitFrom(_, _, _)
SplitFrom(s, sep, i) ==
    LET e == FindChar(s, sep, i) IN
    IF e > Len(s) THEN <<SubSeq(s, i, Len(s))>>
    ELSE <<SubSeq(s, i, e - 1)>> \o SplitFrom(s, sep, e + 1)

SplitOn(s, sep) == SplitFrom(s, sep, 1)

\* sep.join(parts)
RECURSIVE Join(_, _)
Join(parts, sep) ==
    IF Len(parts) = 0 THEN ""
    ELSE IF Len(parts) = 1 THEN parts[1]
    ELSE parts[1] \o sep \o Join(Tail(parts), sep)

-----------------------------------------------------------------------------
(* wrap_text                                                               *)

\* default of wrap_text's width parameter
Width == 80

\* the word's length without the separating space
WordLengthNoSpace(word) == Len(word)

\* len(word) + 1, the "+1 for space" of the packing loop
WordLength(word) == Len(word) + 1

\* the loop over paragraph.split(): words from index i on are packed into
\* lines; current_line and current_length are the loop's locals and out the
\* lines appended to wrapped_paragraphs so far by this paragraph
RECURSIVE PackWords(_, _, _, _, _, _)
PackWords(words, i, current_line, current_length, out, width) ==
    IF i > Len(words)
    THEN IF Len(current_line) > 0
         THEN Append(out, Join(current_line, " "))
         ELSE out
    ELSE LET word == words[i]
             word_length == WordLength(word)
         IN  IF current_length + word_length > width
             THEN PackWords(words, i + 1, <<word>>, word_length,
                            Append(out, Join(current_line, " ")), width)
             ELSE PackWords(words, i + 1, Append(current_line, word),
                            current_length + word_length, out, width)

\* the lines one paragraph contributes to wrapped_paragraphs
WrapParagraph(paragraph, width) ==
    IF Len(Strip(paragraph)) = 0 THEN <<"">>
    ELSE IF StartsWith(Strip(paragraph), "[Page") THEN <<paragraph>>
    ELSE PackWords(SplitWords(paragraph), 1, <<>>, 0, <<>>, width)

RECURSIVE WrapParagraphs(_, _, _)
WrapParagraphs(paragraphs, i, width) ==
    IF i > Len(paragraphs) THEN <<>>
    ELSE WrapParagraph(paragraphs[i], width) \o WrapParagraphs(paragraphs, i + 1, width)

wrap_text(text, width) ==
    Join(WrapParagraphs(SplitOn(text, "\n"), 1, width), "\n")

-----------------------------------------------------------------------------
(* clean_text                                                              *)

\* what the character at index i contributes to re.sub(r'\s+', ' ', text):
\* the first character of a whitespace run becomes one space, the rest nothing
CollapseAt(s, i) ==
    IF ~IsSpace(Char(s, i)) THEN Char(s, i)
    ELSE IF i > 1 /\ IsSpace(Char(s, i - 1)) THEN "" ELSE " "

RECURSIVE CollapseRange(_, _, _)
CollapseRange(s, lo, hi) ==
    IF lo > hi THEN ""
    ELSE IF lo = hi THEN CollapseAt(s, lo)
    ELSE LET mid == (lo + hi) \div 2 IN
         CollapseRange(s, lo, mid) \o CollapseRange(s, mid + 1, hi)

\* re.sub(r'\s+', ' ', text)
CollapseWhitespace(s) == CollapseRange(s, 1, Len(s))

\* what the character at index i contributes to
\* re.sub(r'[^\w\s.,!?;:()-]', '', text)
FilterAt(s, i) == IF Char(s, i) \in KeptChars THEN Char(s, i) ELSE ""

RECURSIVE FilterRange(_, _, _)
FilterRange(s, lo, hi) ==
    IF lo > hi THEN ""
    ELSE IF lo = hi THEN FilterAt(s, lo)
    ELSE LET mid == (lo + hi) \div 2 IN
         FilterRange(s, lo, mid) \o FilterRange(s, mid + 1, hi)

\* re.sub(r'[^\w\s.,!?;:()-]', '', text)
RemoveSpecial(s) == FilterRange(s, 1, Len(s))

\* what the character at index i contributes to
\* re.sub(r'\s+([.,!?;:])', r'\1', text): a whitespace run is dropped exactly
\* when the character right after the run is punctuation (matches are leftmost
\* and greedy, so a match always takes a whole run)
FixPunctAt(s, i) ==
    IF ~IsSpace(Char(s, i)) THEN Char(s, i)
    ELSE LET j == SkipSpace(s, i) IN
         IF j <= Len(s) /\ Char(s, j) \in PunctChars THEN "" ELSE Char(s, i)

RECURSIVE FixPunctRange(_, _, _)
FixPunctRange(s, lo, hi) ==
    IF lo > hi THEN ""
    ELSE IF lo = hi THEN FixPunctAt(s, lo)
    ELSE LET mid == (lo + hi) \div 2 IN
         FixPunctRange(s, lo, mid) \o FixPunctRange(s, mid + 1, hi)

\* re.sub(r'\s+([.,!?;:])', r'\1', text)
FixPunctSpacing(s) == FixPunctRange(s, 1, Len(s))

\* the cleaning steps with the punctuation fix ahead of the character filter
clean_text_FixBeforeFilter(text) ==
    wrap_text(Strip(RemoveSpecial(FixPunctSpacing(CollapseWhitespace(text)))), Width)

clean_text(text) ==
    wrap_text(Strip(FixPunctSpacing(RemoveSpecial(CollapseWhitespace(text)))), Width)

-----------------------------------------------------------------------------
(* str(int), str.lower and PageNumbering                                   *)

Digits == "0123456789"

\* str(n) for an integer n
RECURSIVE NatToStr(_)
NatToStr(n) ==
    IF n < 10 THEN Char(Digits, n + 1)
    ELSE NatToStr(n \div 10) \o Char(Digits, (n % 10) + 1)

IntToStr(n) == IF n < 0 THEN "-" \o NatToStr(0 - n) ELSE NatToStr(n)

UpperLetters == "ABCDEFGHIJKLMNOPQRSTUVWXYZ"

LowerLetters == "abcdefghijklmnopqrstuvwxyz"

LowerMap ==
    [c \in Chars(UpperLetters) |->
        Char(LowerLetters, CHOOSE k \in 1..Len(UpperLetters) : Char(UpperLetters, k) = c)]

LowerChar(c) == IF c \in DOMAIN LowerMap THEN LowerMap[c] ELSE c

\* str.lower()
RECURSIVE Lower(_)
Lower(s) ==
    IF Len(s) = 0 THEN "" ELSE LowerChar(Char(s, 1)) \o Lower(SubSeq(s, 2, Len(s)))

\* the symbol table without the subtractive pairs
roman_symbols_additive ==
    << <<"M", 1000>>, <<"D", 500>>, <<"C", 100>>, <<"L", 50>>,
       <<"X", 10>>, <<"V", 5>>, <<"I", 1>> >>

roman_symbols ==
    << <<"M", 1000>>, <<"CM", 900>>, <<"D", 500>>, <<"CD", 400>>,
       <<"C", 100>>, <<"XC", 90>>, <<"L", 50>>, <<"XL", 40>>,
       <<"X", 10>>, <<"IX", 9>>, <<"V", 5>>, <<"IV", 4>>, <<"I", 1>> >>

\* the for/while loops of _to_roman from symbol k on: result accumulated for num
RECURSIVE RomanLoop(_, _)
RomanLoop(num, k) ==
    IF k > Len(roman_symbols) THEN ""
    ELSE IF num >= roman_symbols[k][2]
         THEN roman_symbols[k][1] \o RomanLoop(num - roman_symbols[k][2], k)
         ELSE RomanLoop(num, k + 1)

_to_roman(num) == Lower(RomanLoop(num, 1))

\* PageNumbering.__init__
PageNumbering(start_page, is_roman) ==
    [start_page |-> start_page, is_roman |-> is_roman, _current |-> start_page]

\* the value PageNumbering.get_page_string returns
get_page_string(self, offset) ==
    LET page_num == self._current + offset IN
    IF self.is_roman THEN _to_roman(page_num) ELSE IntToStr(page_num)

\* a get_page_string that also advances the object's counter
SelfAfterGetPageString_Advancing(self, offset) ==
    [self EXCEPT !._current = @ + 1]

\* the object after PageNumbering.get_page_string: the method assigns nothing
SelfAfterGetPageString(self, offset) == self

-----------------------------------------------------------------------------
(* int(str) and generate_thesis_config                                     *)

\* the value of a string of decimal digits, -1 if s is not one
RECURSIVE DecimalValue(_)
DecimalValue(s) ==
    IF Len(s) = 0 THEN -1
    ELSE LET c == Char(s, Len(s))
             d == IF c \in Chars(Digits)
                  THEN (CHOOSE k \in 1..10 : Char(Digits, k) = c) - 1 ELSE -1
         IN  IF d < 0 THEN -1
             ELSE IF Len(s) = 1 THEN d
             ELSE LET rest == DecimalValue(SubSeq(s, 1, Len(s) - 1)) IN
                  IF rest < 0 THEN -1 ELSE 10 * rest + d

\* the literal int() reads: surrounding whitespace stripped
HasSign(literal) == Len(literal) > 0 /\ Char(literal, 1) \in {"+", "-"}

Unsigned(literal) == IF HasSign(literal) THEN Tail(literal) ELSE literal

\* whether int(raw) succeeds for a string: optional surrounding whitespace
\* around an optional sign and decimal digits
ParsesAsInt(raw) == DecimalValue(Unsigned(Strip(raw))) >= 0

\* int(raw) when it succeeds
IntOf(raw) ==
    LET literal == Strip(raw)
        value == DecimalValue(Unsigned(literal))
    IN  IF HasSign(literal) /\ Char(literal, 1) = "-" THEN 0 - value ELSE value

\* the ValueError int(raw) raises otherwise
IntError(raw) ==
    [type |-> "ValueError",
     message |-> "invalid literal for int() with base 10: '" \o raw \o "'"]

NoError == [type |-> "", message |-> ""]

\* range(1, 13) of the chapter loop
NumChapters == 12

ChapterKey(i) == "chapter_" \o IntToStr(i)

ChapterPrefix(i) == "Ch" \o IntToStr(i)

\* section_mappings, in the dictionary's order
section_mappings ==
    << <<"abstract", "Abstract">>, <<"acknowledgments", "Acknowledgments">>,
       <<"toc", "ToC">>, <<"prologue", "Prologue">>, <<"epilogue", "Epilogue">>,
       <<"references", "Ref">>, <<"appendix", "App">>, <<"index", "Index">> >>

\* config_key in ['abstract', 'acknowledgments', 'toc']
RomanSections == {"abstract", "acknowledgments", "toc"}

\* pd.notna(present) and present, for the cell values "True", "False", "nan"
\* (a NaN is truthy in Python but not notna)
IsPresent(present) == present # "nan" /\ present # "False"

\* the ValueError the chapter loop raises in place of int()'s
ChapterError(row, i) ==
    [type |-> "ValueError",
     message |-> "Invalid page numbers for Chapter " \o IntToStr(i)
                 \o " (Present=" \o row[ChapterPrefix(i) \o "Present"] \o "). "
                 \o "Expected integers for start page ("
                 \o row[ChapterPrefix(i) \o "FP"]
                 \o ") and end page (" \o row[ChapterPrefix(i) \o "LP"] \o ")"]

\* the loop over section_mappings.items() from entry k on: int()'s ValueError
\* propagates as it is
RECURSIVE SectionLoop(_, _, _)
SectionLoop(row, k, config) ==
    IF k > Len(section_mappings)
    THEN [status |-> "returned", config |-> config, error |-> NoError]
    ELSE LET config_key == section_mappings[k][1]
             prefix == section_mappings[k][2]
             fp == row[prefix \o "FP"]
             lp == row[prefix \o "LP"]
         IN  IF ~IsPresent(row[prefix \o "Present"])
             THEN SectionLoop(row, k + 1, config)
             ELSE IF ~ParsesAsInt(fp)
             THEN [status |-> "raised", config |-> <<>>, error |-> IntError(fp)]
             ELSE IF ~ParsesAsInt(lp)
             THEN [status |-> "raised", config |-> <<>>, error |-> IntError(lp)]
             ELSE SectionLoop(row, k + 1,
                      config @@ (config_key :>
                          [start_page |-> IntOf(fp), end_page |-> IntOf(lp),
                           roman |-> config_key \in RomanSections]))

\* the loop over range(1, 13) from chapter i on, followed by the section loop
RECURSIVE ChapterLoop(_, _, _)
ChapterLoop(row, i, config) ==
    IF i > NumChapters THEN SectionLoop(row, 1, config)
    ELSE LET fp == row[ChapterPrefix(i) \o "FP"]
             lp == row[ChapterPrefix(i) \o "LP"]
         IN  IF ~IsPresent(row[ChapterPrefix(i) \o "Present"])
             THEN ChapterLoop(row, i + 1, config)
             ELSE IF ~ParsesAsInt(fp) \/ ~ParsesAsInt(lp)
             THEN [status |-> "raised", config |-> <<>>, error |-> ChapterError(row, i)]
             ELSE ChapterLoop(row, i + 1,
                      config @@ (ChapterKey(i) :>
                          [start_page |-> IntOf(fp), end_page |-> IntOf(lp),
                           roman |-> FALSE]))

generate_thesis_config(row) == ChapterLoop(row, 1, <<>>)

-----------------------------------------------------------------------------
(* split_pdf, load_section_config, pdf_to_txt                              *)

\* dict.get(key, default)
Get(d, key, default) == IF key \in DOMAIN d THEN d[key] ELSE default

\* str.endswith(suffix)
EndsWith(s, suffix) ==
    Len(s) >= Len(suffix) /\ SubSeq(s, Len(s) - Len(suffix) + 1, Len(s)) = suffix

\* os.path.splitext(os.path.basename(pdf_path))[0] for a file name without
\* directory part: the name up to its last dot (a leading dot is no extension)
BaseName(name) ==
    LET dots == {i \in 2..Len(name) : Char(name, i) = "."} IN
    IF dots = {} THEN name
    ELSE SubSeq(name, 1, (CHOOSE i \in dots : \A j \in dots : j <= i) - 1)

\* the scalar yaml.dump writes for a value of a section's details: a bool as
\* true or false, an int in decimal
YamlScalar(field, value) ==
    IF field = "roman" THEN (IF value THEN "true" ELSE "false") ELSE IntToStr(value)

\* yaml.dump(config, f): the mapping of section names to mappings of scalars
YamlDump(config) ==
    [section \in DOMAIN config |->
        [field \in DOMAIN config[section] |->
            YamlScalar(field, config[section][field])]]

\* the value yaml.safe_load resolves a plain scalar to: true and false are
\* bools, a decimal numeral is an int
YamlValue(scalar) ==
    IF scalar \in {"true", "false"} THEN scalar = "true" ELSE IntOf(scalar)

\* yaml.safe_load(f)
YamlSafeLoad(yaml) ==
    [section \in DOMAIN yaml |->
        [field \in DOMAIN yaml[section] |-> YamlValue(yaml[section][field])]]

\* reader.pages[page_num]: a negative index counts from the end
PyIndex(pages, page_num) ==
    IF page_num >= 0 THEN pages[page_num + 1] ELSE pages[Len(pages) + page_num + 1]

\* the pages split_pdf copies without converting start_page to a 0-based index
SectionPages_NoOffset(pages, section_config) ==
    LET start_page == section_config.start_page
        end_page == section_config.end_page
        kept == {page_num \in start_page..(end_page - 1) : page_num < Len(pages)}
    IN  [j \in 1..Cardinality(kept) |-> pages[start_page + j]]

\* the pages split_pdf adds to one section's writer: reader.pages[page_num]
\* for page_num in range(start_page - 1, end_page) below len(reader.pages)
\* (0-based page_num is index page_num + 1 of the sequence)
SectionPages(pages, section_config) ==
    LET start_page == section_config.start_page - 1
        end_page == section_config.end_page
        kept == {page_num \in start_page..(end_page - 1) : page_num < Len(pages)}
    IN  [j \in 1..Cardinality(kept) |-> PyIndex(pages, start_page + j - 1)]

\* the files split_pdf writes: one <section_name>.pdf per configured section
split_pdf(pages, config) ==
    LET names == {key \o ".pdf" : key \in DOMAIN config} IN
    [name \in names |->
        [readable |-> TRUE, pages |-> SectionPages(pages, config[BaseName(name)])]]

\* load_section_config: one PageNumbering per section of the YAML mapping
load_section_config(yaml) ==
    LET config == YamlSafeLoad(yaml) IN
    [section \in DOMAIN config |->
        PageNumbering(Get(config[section], "start_page", 1),
                      Get(config[section], "roman", FALSE))]

\* a lookup that does not lower-case the file's base name
ResolveNumbering_CaseSensitive(base_name, configs) ==
    Get(configs, base_name, PageNumbering(1, FALSE))

\* section_configs.get(base_name.lower(), PageNumbering(1, False))
ResolveNumbering(base_name, configs) ==
    Get(configs, Lower(base_name), PageNumbering(1, FALSE))

\* page_marker numbered one past the configured page
PageEntry_OffByOne(base_name, numbering_, page_num, cleaned_text) ==
    IF Lower(base_name) = "toc" THEN cleaned_text
    ELSE "\n[Page " \o get_page_string(numbering_, page_num + 1) \o "]\n" \o cleaned_text

\* what the page loop appends to full_text for page page_num (0-based)
PageEntry(base_name, numbering_, page_num, cleaned_text) ==
    IF Lower(base_name) = "toc" THEN cleaned_text
    ELSE "\n[Page " \o get_page_string(numbering_, page_num) \o "]\n" \o cleaned_text

\* the loop over range(len(pdf_reader.pages)) from page page_num on; a page
\* whose extract_text() raises ends the loop with the exception
RECURSIVE PageLoop(_, _, _, _, _)
PageLoop(pages, page_num, full_text, base_name, numbering_) ==
    IF page_num >= Len(pages) THEN [raised |-> FALSE, full_text |-> full_text]
    ELSE LET page == pages[page_num + 1] IN
         IF ~page.ok THEN [raised |-> TRUE, full_text |-> full_text]
         ELSE PageLoop(pages, page_num + 1,
                       Append(full_text,
                              PageEntry(base_name, numbering_, page_num,
                                        clean_text(page.text))),
                       base_name, numbering_)

\* a pdf_to_txt whose exception handler is missing: the failure of one file
\* ends the whole run
PdfToTxt_NoHandler(name, file, configs) ==
    LET base_name == BaseName(name)
        numbering_ == ResolveNumbering(base_name, configs)
        loop == IF file.readable
                THEN PageLoop(file.pages, 0, <<>>, base_name, numbering_)
                ELSE [raised |-> TRUE, full_text |-> <<>>]
    IN  [page_numbering |-> numbering_,
         propagated |-> loop.raised,
         output_path |-> IF loop.raised THEN "" ELSE base_name \o ".txt",
         final_text |-> IF loop.raised THEN "" ELSE Join(loop.full_text, "\n")]

\* pdf_to_txt for the file called name: the numbering it resolved, the path it
\* returned ("" for None) and the text it wrote there; any exception of the
\* try block (open, PdfReader, extract_text) is caught and None returned
pdf_to_txt(name, file, configs) ==
    LET base_name == BaseName(name)
        numbering_ == ResolveNumbering(base_name, configs)
        loop == IF file.readable
                THEN PageLoop(file.pages, 0, <<>>, base_name, numbering_)
                ELSE [raised |-> TRUE, full_text |-> <<>>]
    IN  [page_numbering |-> numbering_,
         propagated |-> FALSE,
         output_path |-> IF loop.raised THEN "" ELSE base_name \o ".txt",
         final_text |-> IF loop.raised THEN "" ELSE Join(loop.full_text, "\n")]

\* f.lower().endswith('.pdf')
IsPdfFile(f) == EndsWith(Lower(f), ".pdf")

-----------------------------------------------------------------------------
(* The values the variables of the other parts keep while one part runs.   *)

MaxOffset == 4

Offsets == 0..MaxOffset \cup {41}

TextIdle == text_in = "" /\ text_op = "init" /\ text_out = "" /\ text_out2 = ""

RomanIdle == roman_n = 0 /\ roman_out = ""

NumIdle ==
    /\ numbering = PageNumbering(1, FALSE)
    /\ ctor_args = [start_page |-> 1, is_roman |-> FALSE]
    /\ last_offset = -1
    /\ last_result = ""
    /\ first_result = [o \in Offsets |-> ""]

PipeIdle ==
    /\ pc = "idle"
    /\ doc = <<>>
    /\ yaml_file = <<>>
    /\ pdf_dir = <<>>
    /\ section_configs = <<>>
    /\ pdf_files = <<>>
    /\ idx = 1
    /\ txt_dir = <<>>
    /\ log = <<>>
    /\ page_numbering = PageNumbering(1, FALSE)

GenIdle ==
    /\ data = <<>>
    /\ gen_status = "none"
    /\ gen_config = <<>>
    /\ gen_error = NoError

-----------------------------------------------------------------------------
(* Texts handed to the text functions: concatenations of a few pieces that *)
(* reach the width on either side.                                         *)

MaxPieces == 3

TextPieces ==
    { " ", "\n", ".", "*", "*.", "[Page ",
      Repeat("b", 39), Repeat("c", 40), Repeat("e", 81) }

RECURSIVE Concats(_)
Concats(k) ==
    IF k = 0 THEN {""}
    ELSE LET shorter == Concats(k - 1) IN
         shorter \cup {s \o p : s \in shorter, p \in TextPieces}

InitText ==
    /\ text_in \in Concats(MaxPieces)
    /\ text_op = "init"
    /\ text_out = ""
    /\ text_out2 = ""
    /\ RomanIdle
    /\ NumIdle
    /\ GenIdle
    /\ PipeIdle

CallWrapText ==
    /\ text_op = "init"
    /\ text_out' = wrap_text(text_in, Width)
    /\ text_op' = "wrap"
    /\ UNCHANGED <<text_in, text_out2, roman_vars, num_vars, gen_vars, pipe_vars>>

CallCleanText ==
    /\ text_op = "init"
    /\ text_out' = clean_text(text_in)
    /\ text_op' = "clean"
    /\ UNCHANGED <<text_in, text_out2, roman_vars, num_vars, gen_vars, pipe_vars>>

CallCleanTextAgain ==
    /\ text_op = "clean"
    /\ text_out2' = clean_text(text_out)
    /\ text_op' = "clean2"
    /\ UNCHANGED <<text_in, text_out, roman_vars, num_vars, gen_vars, pipe_vars>>

NextText == CallWrapText \/ CallCleanText \/ CallCleanTextAgain

SpecText == InitText /\ [][NextText]_vars

-----------------------------------------------------------------------------
(* Calls of _to_roman and of get_page_string on one object.                *)

MaxRoman == 3999

MaxStartPage == 6

\* start pages of the objects: the small ones and two in the hundreds/thousands
StartPages == 1..MaxStartPage \cup {38, 1990}

InitRoman == RomanIdle /\ NumIdle /\ TextIdle /\ GenIdle /\ PipeIdle

\* one call of the static method per run
CallToRoman ==
    /\ roman_n = 0
    /\ \E n \in 1..MaxRoman :
          /\ roman_n' = n
          /\ roman_out' = _to_roman(n)
    /\ UNCHANGED <<text_vars, num_vars, gen_vars, pipe_vars>>

NextRoman == CallToRoman

SpecRoman == InitRoman /\ [][NextRoman]_vars

InitNumbering ==
    /\ \E sp \in StartPages, r \in BOOLEAN :
          /\ numbering = PageNumbering(sp, r)
          /\ ctor_args = [start_page |-> sp, is_roman |-> r]
    /\ last_offset = -1
    /\ last_result = ""
    /\ first_result = [o \in Offsets |-> ""]
    /\ RomanIdle
    /\ TextIdle
    /\ GenIdle
    /\ PipeIdle

CallGetPageString ==
    /\ \E offset \in Offsets :
          LET result == get_page_string(numbering, offset) IN
          /\ last_offset' = offset
          /\ last_result' = result
          /\ first_result' = IF first_result[offset] = ""
                             THEN [first_result EXCEPT ![offset] = result]
                             ELSE first_result
          /\ numbering' = SelfAfterGetPageString(numbering, offset)
    /\ UNCHANGED <<ctor_args, text_vars, roman_vars, gen_vars, pipe_vars>>

NextNumbering == CallGetPageString

SpecNumbering == InitNumbering /\ [][NextNumbering]_vars

-----------------------------------------------------------------------------
(* Referia rows and calls of generate_thesis_config.                       *)

\* section keys in the order the two loops visit them, with column prefixes
SectionOrder ==
    [i \in 1..NumChapters |-> <<ChapterKey(i), ChapterPrefix(i)>>] \o section_mappings

SectionKeys == {SectionOrder[k][1] : k \in DOMAIN SectionOrder}

PrefixOf(key) ==
    LET k == CHOOSE j \in DOMAIN SectionOrder : SectionOrder[j][1] = key
    IN  SectionOrder[k][2]

\* at most this many sections are marked present in a row
MaxPresent == 2

FPValues == {"10", "abc"}

LPValues == {" 20 ", "1x"}

\* the column names of a row, and the section and cell kind each one holds
FieldNames ==
    {PrefixOf(key) \o suffix : key \in SectionKeys, suffix \in {"Present", "FP", "LP"}}

FieldKey ==
    [f \in FieldNames |->
        CHOOSE key \in SectionKeys :
            \E suffix \in {"Present", "FP", "LP"} : PrefixOf(key) \o suffix = f]

FieldSuffix ==
    [f \in FieldNames |->
        CHOOSE suffix \in {"Present", "FP", "LP"} : PrefixOf(FieldKey[f]) \o suffix = f]

\* the row in which the sections in DOMAIN fields are marked present with the
\* given first and last pages; every other section has the Present cell
\* absent and page cells that do not parse
RowOf(fields, absent) ==
    [f \in FieldNames |->
        IF FieldKey[f] \in DOMAIN fields
        THEN (IF FieldSuffix[f] = "Present" THEN "True" ELSE fields[FieldKey[f]][FieldSuffix[f]])
        ELSE (IF FieldSuffix[f] = "Present" THEN absent ELSE "nan")]

\* the rows that mark at most max of the given sections present, with page
\* cells drawn from cells
RowsOver(sections, cells, absents, max) ==
    UNION { { RowOf(fields, absent) : fields \in [present -> cells], absent \in absents }
            : present \in {S \in SUBSET sections : Cardinality(S) <= max} }

InitConfig ==
    /\ data \in RowsOver(SectionKeys, [FP : FPValues, LP : LPValues], {"False", "nan"}, MaxPresent)
    /\ gen_status = "none"
    /\ gen_config = <<>>
    /\ gen_error = NoError
    /\ TextIdle
    /\ RomanIdle
    /\ NumIdle
    /\ PipeIdle

CallGenerateThesisConfig ==
    /\ gen_status = "none"
    /\ LET r == generate_thesis_config(data) IN
          /\ gen_status' = r.status
          /\ gen_config' = r.config
          /\ gen_error' = r.error
    /\ UNCHANGED <<data, text_vars, roman_vars, num_vars, pipe_vars>>

NextConfig == CallGenerateThesisConfig

SpecConfig == InitConfig /\ [][NextConfig]_vars

-----------------------------------------------------------------------------
(* process_directory on a directory of section PDFs (SpecDir), and main    *)
(* from a Referia row and a thesis PDF (SpecMain).                         *)

\* pages per section file, and pages of the thesis PDF
MaxPages == 2

MaxDocPages == 3

Page(text) == [ok |-> TRUE, text |-> text]

\* a page whose extract_text() raises
FailingPage == [ok |-> FALSE, text |-> ""]

\* the section files of the directory with the raw page texts they draw
\* their pages from, and a file that is no PDF
DirTexts ==
    [f \in {"Toc.PDF", "Ch.pdf", "app.pdf"} |->
        CASE f = "Toc.PDF" -> <<"Intro .... 1\nMethods .. 15", " 2 [Page 3] Index|..7 ">>
          [] f = "Ch.pdf"  -> <<"A", " B ", "c  d .">>
          [] f = "app.pdf" -> <<"x [Page 9] * y !", "">>]

\* the i-th page text of file f, the list repeated as often as needed
DirText(f, i) == DirTexts[f][((i - 1) % Len(DirTexts[f])) + 1]

\* the shapes a section file can have: not readable as a PDF, or up to
\* MaxPages pages of which at most one (page `failing`) raises on extraction
FileShapes ==
    {[readable |-> FALSE, n |-> 0, failing |-> 0]}
    \cup {[readable |-> TRUE, n |-> n, failing |-> failing] :
              n \in 0..MaxPages, failing \in 0..MaxPages}

FileOf(f, shape) ==
    [readable |-> shape.readable,
     pages |-> [i \in 1..shape.n |-> IF i = shape.failing THEN FailingPage
                                     ELSE Page(DirText(f, i))]]

OtherFile == [readable |-> FALSE, pages |-> <<>>]

\* the directories: any of the section files, each of any shape, beside the
\* file that is no PDF
DirsOver(names) ==
    UNION { { [f \in present |-> FileOf(f, shapes[f])] @@ ("notes.txt" :> OtherFile)
              : shapes \in [present -> {sh \in FileShapes : sh.failing <= sh.n}] }
            : present \in SUBSET names }

\* os.listdir order: the order of this list (forwards or backwards)
NameOrder ==
    <<"Toc.PDF", "notes.txt", "Ch.pdf", "app.pdf">>
        \o [k \in DOMAIN SectionOrder |-> SectionOrder[k][1] \o ".pdf"]

Reverse(seq) == [i \in 1..Len(seq) |-> seq[Len(seq) + 1 - i]]

ListingOrders == {NameOrder, Reverse(NameOrder)}

RECURSIVE SelectFiles(_, _, _)
SelectFiles(order, i, d) ==
    IF i > Len(order) THEN <<>>
    ELSE (IF order[i] \in DOMAIN d /\ IsPdfFile(order[i]) THEN <<order[i]>> ELSE <<>>)
         \o SelectFiles(order, i + 1, d)

\* the YAML configurations of SpecDir: keys in different letter case, details
\* with and without start_page and roman
YamlConfigs ==
    { <<>>,
      ("ch" :> [start_page |-> "10"])
          @@ ("toc" :> [start_page |-> "3", roman |-> "true"]),
      ("Ch" :> [start_page |-> "5", roman |-> "true"]) @@ ("app" :> <<>>),
      ("TOC" :> [roman |-> "true"])
          @@ ("APP" :> [start_page |-> "7", end_page |-> "9", roman |-> "false"]) }

InitDir ==
    /\ pc = "process"
    /\ doc = <<>>
    /\ yaml_file \in YamlConfigs
    /\ pdf_dir \in DirsOver(DOMAIN DirTexts)
    /\ section_configs = <<>>
    /\ pdf_files = <<>>
    /\ idx = 1
    /\ txt_dir = <<>>
    /\ log = <<>>
    /\ page_numbering = PageNumbering(1, FALSE)
    /\ TextIdle
    /\ RomanIdle
    /\ NumIdle
    /\ GenIdle

\* process_directory up to its loop: load the configuration, list the PDFs
LoadAndList ==
    /\ pc = "process"
    /\ section_configs' = load_section_config(yaml_file)
    /\ \E order \in ListingOrders :
          pdf_files' = SelectFiles(order, 1, pdf_dir)
    /\ idx' = 1
    /\ pc' = IF Len(pdf_files') = 0 THEN "done" ELSE "convert"
    /\ UNCHANGED <<doc, yaml_file, pdf_dir, txt_dir, log, page_numbering,
                   text_vars, roman_vars, num_vars, gen_vars>>

\* one iteration of process_directory's loop: pdf_to_txt on the next file
ConvertNext ==
    /\ pc = "convert"
    /\ LET pdf_file == pdf_files[idx]
           r == pdf_to_txt(pdf_file, pdf_dir[pdf_file], section_configs)
       IN  /\ page_numbering' = r.page_numbering
           /\ txt_dir' = IF r.output_path # ""
                         THEN (r.output_path :> r.final_text) @@ txt_dir
                         ELSE txt_dir
           /\ log' = Append(log, [pdf_file |-> pdf_file, output_path |-> r.output_path])
           /\ idx' = idx + 1
           /\ pc' = IF r.propagated THEN "aborted"
                    ELSE IF idx = Len(pdf_files) THEN "done" ELSE "convert"
    /\ UNCHANGED <<doc, yaml_file, pdf_dir, section_configs, pdf_files,
                   text_vars, roman_vars, num_vars, gen_vars>>

NextDir == LoadAndList \/ ConvertNext

SpecDir == InitDir /\ [][NextDir]_vars

\* the text of page k (1-based) of the thesis PDF
DocText(k) == "Text  of page " \o IntToStr(k) \o " ."

\* the sections a row of SpecMain may mark present
MainSections == {"chapter_1", "chapter_2", "abstract", "toc"}

MainPageCells == [FP : {"1", "2", "abc"}, LP : {"2", "4"}]

InitMain ==
    /\ pc = "main"
    /\ data \in RowsOver(MainSections, MainPageCells, {"nan"}, MaxPresent)
    /\ \E n \in 1..MaxDocPages : doc = [k \in 1..n |-> Page(DocText(k))]
    /\ gen_status = "none"
    /\ gen_config = <<>>
    /\ gen_error = NoError
    /\ yaml_file = <<>>
    /\ pdf_dir = <<>>
    /\ section_configs = <<>>
    /\ pdf_files = <<>>
    /\ idx = 1
    /\ txt_dir = <<>>
    /\ log = <<>>
    /\ page_numbering = PageNumbering(1, FALSE)
    /\ TextIdle
    /\ RomanIdle
    /\ NumIdle

\* main up to split_pdf: generate the configuration and save it as YAML; a
\* ValueError of generate_thesis_config ends main
MainGenerate ==
    /\ pc = "main"
    /\ LET r == generate_thesis_config(data) IN
          /\ gen_status' = r.status
          /\ gen_config' = r.config
          /\ gen_error' = r.error
          /\ yaml_file' = IF r.status = "returned" THEN YamlDump(r.config) ELSE yaml_file
          /\ pc' = IF r.status = "returned" THEN "split" ELSE "aborted"
    /\ UNCHANGED <<data, doc, pdf_dir, section_configs, pdf_files, idx, txt_dir, log,
                   page_numbering, text_vars, roman_vars, num_vars>>

\* split_pdf(pdf_path, pdf_output_dir, config)
MainSplit ==
    /\ pc = "split"
    /\ pdf_dir' = split_pdf(doc, gen_config) @@ pdf_dir
    /\ pc' = "process"
    /\ UNCHANGED <<doc, yaml_file, section_configs, pdf_files, idx, txt_dir, log,
                   page_numbering, text_vars, roman_vars, num_vars, gen_vars>>

NextMain == MainGenerate \/ MainSplit \/ LoadAndList \/ ConvertNext

SpecMain == InitMain /\ [][NextMain]_vars

-----------------------------------------------------------------------------
(* Properties of wrap_text and clean_text, checked under SpecText.         *)

Lines(text) == SplitOn(text, "\n")

HasSpace(s) == \E i \in 1..Len(s) : IsSpace(Char(s, i))

IsMarkerParagraph(p) == StartsWith(Strip(p), "[Page")

\* C6 as stated: whenever every word of the text handed to wrap_text is at
\* most Width characters long, no output line is longer than Width.
C6_AsStated ==
    text_op = "wrap" =>
        LET words == SplitWords(text_in)
            lines == Lines(text_out)
        IN  (\A i \in DOMAIN words : Len(words[i]) <= Width)
                => \A k \in DOMAIN lines : Len(lines[k]) <= Width

\* C6 (amended): an output line of wrap_text is longer than Width only when
\* it is a single word that alone exceeds Width, or a paragraph of the input
\* whose stripped content starts with "[Page" (passed through verbatim); and
\* the words of the output are the words of the input, in order, so no word
\* is split across lines.
C6_WrapWidth ==
    text_op = "wrap" =>
        LET lines == Lines(text_out)
            paragraphs == Lines(text_in)
        IN  /\ \A k \in DOMAIN lines :
                  Len(lines[k]) > Width =>
                      \/ ~HasSpace(lines[k])
                      \/ /\ IsMarkerParagraph(lines[k])
                         /\ \E j \in DOMAIN paragraphs : paragraphs[j] = lines[k]
            /\ SplitWords(text_out) = SplitWords(text_in)

\* a one-paragraph text without marker that wrap_text broke into several
\* lines, one of them a single over-long word
C6_Witness ==
    /\ text_op = "wrap"
    /\ Len(Lines(text_in)) = 1
    /\ ~IsMarkerParagraph(text_in)
    /\ Len(Lines(text_out)) >= 2
    /\ \E k \in DOMAIN Lines(text_out) : Len(Lines(text_out)[k]) > Width

\* C7: clean_text is idempotent: cleaning an already cleaned text returns it
\* unchanged.
C7_Idempotent ==
    text_op = "clean2" => text_out2 = text_out

\* a text with a character outside the allowed set and whitespace before
\* punctuation that the first cleaning changed, cleaned twice
C7_Witness ==
    /\ text_op = "clean2"
    /\ \E i \in 1..Len(text_in) : Char(text_in, i) \notin KeptChars
    /\ \E i \in 1..(Len(text_in) - 1) :
           IsSpace(Char(text_in, i)) /\ Char(text_in, i + 1) \in PunctChars
    /\ text_out # text_in
    /\ text_out # ""

-----------------------------------------------------------------------------
(* Properties of _to_roman and get_page_string.                            *)

\* reference roman numerals, one table per decimal digit
RefOnes == <<"", "i", "ii", "iii", "iv", "v", "vi", "vii", "viii", "ix">>

RefTens == <<"", "x", "xx", "xxx", "xl", "l", "lx", "lxx", "lxxx", "xc">>

RefHundreds == <<"", "c", "cc", "ccc", "cd", "d", "dc", "dcc", "dccc", "cm">>

RefRoman(n) ==
    Repeat("m", n \div 1000) \o RefHundreds[((n \div 100) % 10) + 1]
        \o RefTens[((n \div 10) % 10) + 1] \o RefOnes[(n % 10) + 1]

\* C5: for every n in 1..MaxRoman, _to_roman(n) is the lowercase subtractive
\* roman numeral of n given by the reference tables; 1994, 4 and 9 give
\* "mcmxciv", "iv" and "ix".
C5_ToRomanMatchesReference ==
    roman_n >= 1 =>
        /\ roman_out = RefRoman(roman_n)
        /\ roman_n = 1994 => roman_out = "mcmxciv"
        /\ roman_n = 4 => roman_out = "iv"
        /\ roman_n = 9 => roman_out = "ix"

\* _to_roman has been called with 1994 and returned "mcmxciv"
C5_Witness == roman_n = 1994 /\ roman_out = "mcmxciv"

\* C4: every get_page_string(offset) returns the display string of
\* start_page + offset (the reference roman numeral when is_roman, the decimal
\* numeral otherwise), the same string as the first call with that offset
\* returned, and leaves start_page, is_roman and _current as constructed.
C4_GetPageStringPure ==
    last_offset >= 0 =>
        LET n == ctor_args.start_page + last_offset IN
        /\ IF ctor_args.is_roman
           THEN last_result = RefRoman(n)
           ELSE DecimalValue(last_result) = n /\ Char(last_result, 1) # "0"
        /\ last_result = first_result[last_offset]
        /\ numbering = PageNumbering(ctor_args.start_page, ctor_args.is_roman)

\* a roman object constructed with start_page 5 whose offset 2 was asked for
\* again after other offsets, giving "vii"
C4_Witness ==
    /\ ctor_args = [start_page |-> 5, is_roman |-> TRUE]
    /\ last_offset = 2
    /\ last_result = "vii"
    /\ \A o \in 0..2 : first_result[o] # ""

-----------------------------------------------------------------------------
(* Properties of generate_thesis_config, checked under SpecConfig.         *)

Contains(s, pat) ==
    \E i \in 1..(Len(s) - Len(pat) + 1) : SubSeq(s, i, i + Len(pat) - 1) = pat

\* positions in SectionOrder of the sections marked present whose first or
\* last page does not parse as an integer
BadSections(row) ==
    {k \in DOMAIN SectionOrder :
        /\ IsPresent(row[SectionOrder[k][2] \o "Present"])
        /\ \/ ~ParsesAsInt(row[SectionOrder[k][2] \o "FP"])
           \/ ~ParsesAsInt(row[SectionOrder[k][2] \o "LP"])}

\* the message names the section at position k: "Chapter i" for a chapter,
\* the configuration key or the column prefix for a named section
NamesSection(message, k) ==
    IF k <= NumChapters
    THEN Contains(message, "Chapter " \o IntToStr(k) \o " ")
    ELSE Contains(message, SectionOrder[k][1]) \/ Contains(message, SectionOrder[k][2])

\* the message quotes every page cell of the section at position k that does
\* not parse
QuotesOffendingValues(message, row, k) ==
    \A suffix \in {"FP", "LP"} :
        LET raw == row[SectionOrder[k][2] \o suffix] IN
        ~ParsesAsInt(raw) => Contains(message, raw)

\* C8: when some section marked present has a first or last page that does
\* not parse as an integer, generate_thesis_config raises a ValueError that
\* names the first such section and its offending raw values and returns no
\* mapping; sections not marked present get no entry and cause no error.
C8_ConfigErrorNamesSection ==
    gen_status # "none" =>
        LET bad == BadSections(data) IN
        /\ bad # {} =>
              LET k == CHOOSE j \in bad : \A m \in bad : j <= m IN
              /\ gen_status = "raised"
              /\ gen_error.type = "ValueError"
              /\ NamesSection(gen_error.message, k)
              /\ QuotesOffendingValues(gen_error.message, data, k)
              /\ gen_config = <<>>
        /\ bad = {} =>
              /\ gen_status = "returned"
              /\ \A k \in DOMAIN SectionOrder :
                    SectionOrder[k][1] \in DOMAIN gen_config
                        <=> IsPresent(data[SectionOrder[k][2] \o "Present"])

-----------------------------------------------------------------------------
(* Properties of process_directory and pdf_to_txt, checked under SpecDir.  *)

\* the file's page retrieval raises: it cannot be opened as a PDF, or
\* extract_text() raises on one of its pages
Throws(file) ==
    ~file.readable \/ \E i \in DOMAIN file.pages : ~file.pages[i].ok

OutputName(pdf_file) == BaseName(pdf_file) \o ".txt"

\* index of the first occurrence of pat in text at or after from, 0 if none
FirstIndexOf(text, pat, from) ==
    LET hits == {i \in from..(Len(text) - Len(pat) + 1) :
                    SubSeq(text, i, i + Len(pat) - 1) = pat}
    IN  IF hits = {} THEN 0 ELSE CHOOSE i \in hits : \A j \in hits : i <= j

\* the blocks occur in text one after the other, in order, from index from on
RECURSIVE OccurInOrder(_, _, _)
OccurInOrder(text, blocks, from) ==
    IF Len(blocks) = 0 THEN TRUE
    ELSE LET at == FirstIndexOf(text, blocks[1], from) IN
         at > 0 /\ OccurInOrder(text, Tail(blocks), at + Len(blocks[1]))

\* number of occurrences of pat in text
Occurrences(text, pat) ==
    Cardinality({i \in 1..(Len(text) - Len(pat) + 1) :
                    SubSeq(text, i, i + Len(pat) - 1) = pat})

\* the file the loop converted last, once it has converted one
LastFile == pdf_files[idx - 1]

\* C1: the run never ends early, and every file the loop has passed either
\* raised during page retrieval and then has no output file and a failure
\* reported, or has its output file written: a failing section neither stops
\* the sections before it nor those after it.
C1_FailureIsolation ==
    /\ pc # "aborted"
    /\ pc = "done" => Len(log) = Len(pdf_files)
    /\ \A i \in 1..Len(log) :
          LET pdf_file == pdf_files[i] IN
          /\ log[i].pdf_file = pdf_file
          /\ IF Throws(pdf_dir[pdf_file])
             THEN log[i].output_path = "" /\ OutputName(pdf_file) \notin DOMAIN txt_dir
             ELSE log[i].output_path = OutputName(pdf_file)
                  /\ OutputName(pdf_file) \in DOMAIN txt_dir

\* a finished run over three sections in which the second raised on a page
\* and the first and the third have their output files
C1_Witness ==
    /\ pc = "done"
    /\ Len(pdf_files) = 3
    /\ pdf_dir[pdf_files[2]].readable /\ Throws(pdf_dir[pdf_files[2]])
    /\ OutputName(pdf_files[2]) \notin DOMAIN txt_dir
    /\ OutputName(pdf_files[1]) \in DOMAIN txt_dir
    /\ OutputName(pdf_files[3]) \in DOMAIN txt_dir

\* C2: the text written for a section other than "toc" contains, for each
\* page index i in increasing order, the marker "[Page <page_string(i)>]"
\* on a line of its own immediately before the cleaned text of page i, and
\* no other marker.
C2_MarkersInOrder ==
    (pc \in {"convert", "done"} /\ idx > 1 /\ log[idx - 1].output_path # ""
        /\ Lower(BaseName(LastFile)) # "toc") =>
        LET pages == pdf_dir[LastFile].pages
            text == txt_dir[OutputName(LastFile)]
            blocks == [i \in 1..Len(pages) |->
                          "[Page " \o get_page_string(page_numbering, i - 1) \o "]\n"
                              \o clean_text(pages[i].text)]
        IN  /\ OccurInOrder(text, blocks, 1)
            /\ Occurrences(text, "[Page ") = Len(pages)

\* the section "Ch" with pages "A" and " B " and the default numbering gave
\* "[Page 1]" before "A" and "[Page 2]" before "B"
C2_Witness ==
    /\ pc \in {"convert", "done"} /\ idx > 1
    /\ LastFile = "Ch.pdf"
    /\ page_numbering = PageNumbering(1, FALSE)
    /\ "Ch.txt" \in DOMAIN txt_dir
    /\ txt_dir["Ch.txt"] = "\n[Page 1]\nA\n\n[Page 2]\nB"

\* a line <title><run of dots and spaces with a dot><digits>
IsDotLeaderLine(line) ==
    \E a \in 1..Len(line), b \in 1..Len(line) :
        /\ a < b /\ b < Len(line)
        /\ Char(line, a) \notin {".", " "}
        /\ \A k \in (a + 1)..b : Char(line, k) \in {".", " "}
        /\ \E k \in (a + 1)..b : Char(line, k) = "."
        /\ \A k \in (b + 1)..Len(line) : Char(line, k) \in Chars(Digits)

HasDotLeaderLine(text) ==
    \E k \in DOMAIN Lines(text) : IsDotLeaderLine(Lines(text)[k])

\* C3: the text written for a section whose name is "toc" in any letter case
\* contains no "[Page" marker, and contains the header row of a markdown
\* table whenever a page text has a dot-leader line.
C3_TocTable ==
    (pc \in {"convert", "done"} /\ idx > 1 /\ log[idx - 1].output_path # ""
        /\ Lower(BaseName(LastFile)) = "toc") =>
        LET pages == pdf_dir[LastFile].pages
            text == txt_dir[OutputName(LastFile)]
        IN  /\ ~Contains(text, "[Page")
            /\ (\E i \in DOMAIN pages : HasDotLeaderLine(pages[i].text))
                   => Contains(text, "| Section | Page |")

\* C9: pdf_to_txt resolves the numbering of a section file to the configured
\* PageNumbering of a key that equals the file's base name up to letter case,
\* and to the default arabic numbering from 1 only when there is no such key.
C9_CaseInsensitiveLookup ==
    (pc \in {"convert", "done"} /\ idx > 1) =>
        LET matching == {key \in DOMAIN section_configs :
                            Lower(key) = Lower(BaseName(LastFile))}
        IN  IF matching = {}
            THEN page_numbering = PageNumbering(1, FALSE)
            ELSE \E key \in matching : page_numbering = section_configs[key]

-----------------------------------------------------------------------------
(* Property of main, checked under SpecMain.                               *)

Max(a, b) == IF a >= b THEN a ELSE b

Min(a, b) == IF a <= b THEN a ELSE b

\* the numeral of page number n in a section's numbering scheme
Numeral(n, roman) == IF roman THEN RefRoman(n) ELSE IntToStr(n)

\* C10: for every configured section other than "toc" with
\* 1 <= start_page <= end_page, the text written for it holds exactly one
\* marker per page of start_page..end_page that exists in the thesis PDF, the
\* j-th marker (from 0) is the numeral of start_page + j and stands before the
\* cleaned text of page start_page + j of the thesis PDF; once main is done
\* every such section has its text.
C10_MarkerIsAbsolutePage ==
    \A key \in DOMAIN gen_config :
        LET start_page == gen_config[key].start_page
            end_page == gen_config[key].end_page
            kept == Max(0, Min(end_page, Len(doc)) - start_page + 1)
            blocks == [j \in 1..kept |->
                          "[Page " \o Numeral(start_page + j - 1, gen_config[key].roman)
                              \o "]\n" \o clean_text(doc[start_page + j - 1].text)]
        IN  (key # "toc" /\ 1 <= start_page /\ start_page <= end_page) =>
                /\ pc = "done" => (key \o ".txt") \in DOMAIN txt_dir
                /\ (key \o ".txt") \in DOMAIN txt_dir =>
                      /\ OccurInOrder(txt_dir[key \o ".txt"], blocks, 1)
                      /\ Occurrences(txt_dir[key \o ".txt"], "[Page ") = kept

\* main is done for a thesis of three pages with chapter_1 configured as pages
\* 2 to 4: its text holds the markers 2 and 3 before the texts of pages 2 and
\* 3, and page 4, past the end, is skipped
C10_Witness ==
    /\ pc = "done"
    /\ Len(doc) = 3
    /\ "chapter_1" \in DOMAIN gen_config
    /\ gen_config["chapter_1"].start_page = 2
    /\ gen_config["chapter_1"].end_page = 4
    /\ "chapter_1.txt" \in DOMAIN txt_dir
    /\ txt_dir["chapter_1.txt"]
          = "\n[Page 2]\nText of page 2.\n\n[Page 3]\nText of page 3."

====
